---------------------------- MODULE Spec2Model ----------------------------
(***************************************************************************)
(* Model of the shrink analytics pipeline: the customer segmentation       *)
(* transformer (src/src/cust_seg.py, class CustSeg) and the pipeline       *)
(* driver (src/src/run_pipeline.py).                                       *)
(*                                                                         *)
(* A dataframe is a finite sequence of rows.  A transaction row carries    *)
(* the columns cust_seg.py reads: address1 (store key), visit_date (days), *)
(* UPC (the item of the row) and qty_shrink_per_day.  qty_shrink_per_day   *)
(* stands for the six columns averaged in build_cust_table, which are all  *)
(* treated alike by the code.  Key columns (address1, visit_date) are      *)
(* never missing; a value column may be NaN.                               *)
(*                                                                         *)
(* Floats are exact rationals <<num, den>> with den > 0, reduced; NaN is   *)
(* <<0, 0>>.                                                               *)
(***************************************************************************)
EXTENDS Integers, Sequences, FiniteSets, TLC

(***************************************************************************)
(* Bounds of the model.                                                    *)
(***************************************************************************)
NumStores == 2
MaxRows == 3
MaxClusters == 3
MaxVisits == 4

Stores == 1..NumStores

\* Value domains of the input tables of each specification.
OneDate == {0}
TwoDates == {0, 10}
VisitDates == {0, 10, 20, 30}
OneUPC == {1}
TwoUPCs == {1, 2}

(***************************************************************************)
(* Floats.                                                                 *)
(***************************************************************************)
NaN == <<0, 0>>

IsNaN(x) == x[2] = 0

Abs(n) == IF n < 0 THEN -n ELSE n

RECURSIVE GCD(_, _)
GCD(a, b) == IF b = 0 THEN a ELSE GCD(b, a % b)

\* n / d for integers n and d > 0 (Python 3 true division).
Div(n, d) ==
    LET g == GCD(Abs(n), d)
    IN  <<n \div g, d \div g>>

Flt(n) == <<n, 1>>

FAdd(x, y) ==
    IF IsNaN(x) \/ IsNaN(y) THEN NaN
    ELSE Div(x[1] * y[2] + y[1] * x[2], x[2] * y[2])

FSub(x, y) ==
    IF IsNaN(x) \/ IsNaN(y) THEN NaN
    ELSE Div(x[1] * y[2] - y[1] * x[2], x[2] * y[2])

FDivInt(x, n) ==
    IF IsNaN(x) \/ n = 0 THEN NaN ELSE Div(x[1], x[2] * n)

\* The values of a column that are not NaN, in order.
NotNaN(s) == SelectSeq(s, LAMBDA x : ~IsNaN(x))

RECURSIVE FSum(_)
FSum(s) == IF s = <<>> THEN Flt(0) ELSE FAdd(Head(s), FSum(Tail(s)))

\* pandas mean of a column: NaN values are skipped; NaN when none is left.
Mean(s) == FDivInt(FSum(NotNaN(s)), Len(NotNaN(s)))

\* The number of values of a column that are not NaN (pandas count).
Count(s) == Len(NotNaN(s))

(***************************************************************************)
(* Sequences and sets.                                                     *)
(***************************************************************************)
RECURSIVE SortedSeq(_)
SortedSeq(S) ==
    IF S = {} THEN <<>>
    ELSE LET m == CHOOSE x \in S : \A y \in S : x <= y
         IN  <<m>> \o SortedSeq(S \ {m})

Range(s) == {s[i] : i \in DOMAIN s}

Map(s, Op(_)) == [i \in DOMAIN s |-> Op(s[i])]

\* str(n) of a natural number, as pred.astype(str) gives it.
Digits == <<"0", "1", "2", "3", "4", "5", "6", "7", "8", "9">>

RECURSIVE IntToStr(_)
IntToStr(n) ==
    IF n < 10 THEN Digits[n + 1]
    ELSE IntToStr(n \div 10) \o Digits[(n % 10) + 1]

(***************************************************************************)
(* Input tables.                                                           *)
(***************************************************************************)
RowLeq(r, s) ==
    \/ r.address1 < s.address1
    \/ /\ r.address1 = s.address1
       /\ \/ r.visit_date < s.visit_date
          \/ /\ r.visit_date = s.visit_date
             /\ \/ r.UPC < s.UPC
                \/ /\ r.UPC = s.UPC
                   /\ r.qty_shrink_per_day[2] <= s.qty_shrink_per_day[2]

\* All tables of at most n rows over the given value domains, rows in
\* canonical order (row order is irrelevant to every groupby of the code).
Tables(dates, upcs, qtys, n) ==
    LET Rows == [address1 : Stores, visit_date : dates, UPC : upcs,
                 qty_shrink_per_day : qtys]
    IN  {t \in UNION {[1..m -> Rows] : m \in 0..n} :
            \A i \in 1..(Len(t) - 1) : RowLeq(t[i], t[i + 1])}

(***************************************************************************)
(* Tables with an index (customer table, external address table).          *)
(*   index : the row labels, in row order                                  *)
(*   dtype : column name -> dtype                                          *)
(*   data  : column name -> the column's values, in row order              *)
(***************************************************************************)
NoTable == [index |-> <<>>, dtype |-> <<>>, data |-> <<>>]

Columns(t) == DOMAIN t.dtype

\* t with column c set (added or overwritten) to the values vals.
SetCol(t, c, ty, vals) ==
    [index |-> t.index,
     dtype |-> [x \in Columns(t) \cup {c} |-> IF x = c THEN ty ELSE t.dtype[x]],
     data  |-> [x \in Columns(t) \cup {c} |-> IF x = c THEN vals ELSE t.data[x]]]

\* del t[c]
DelCol(t, c) ==
    [index |-> t.index,
     dtype |-> [x \in Columns(t) \ {c} |-> t.dtype[x]],
     data  |-> [x \in Columns(t) \ {c} |-> t.data[x]]]

\* The distinct store addresses of a table.
StoresOf(t) == {r.address1 : r \in Range(t)}

\* The rows of df of store add: df[df.address1 == add].
RowsOf(df, add) == SelectSeq(df, LAMBDA r : r.address1 = add)

\* The index of df[...].groupby(['address1', 'visit_date']) restricted to
\* one store: its distinct visit dates, ascending.
Visits(df, add) == SortedSeq({r.visit_date : r \in Range(RowsOf(df, add))})

\* The qty_shrink_per_day column of the rows of one visit.
VisitQty(df, add, date) ==
    Map(SelectSeq(RowsOf(df, add), LAMBDA r : r.visit_date = date),
        LAMBDA r : r.qty_shrink_per_day)

(***************************************************************************)
(* CustSeg: the pure parts.                                                *)
(***************************************************************************)
last_visit(df, add) ==
    LET foo == Visits(df, add)
        num_visits == Len(foo)
    IN  foo[num_visits]

days_between_visits(df, add) ==
    LET foo == Visits(df, add)
        num_visits == Len(foo)
        first_visit == foo[1]
        last == foo[num_visits]
    IN  Div(last - first_visit, num_visits)

\* foo of _add_cols for one store: the mean over the store's visits of the
\* count of qty_shrink_per_day in the visit.
avg_UPC_per_visit(df, add) ==
    Mean(Map(Visits(df, add), LAMBDA d : Flt(Count(VisitQty(df, add, d)))))

\* A grouping that keeps one index entry per row of df instead of one per
\* store.
GroupbyMean_per_row(df) ==
    LET idx == Map(df, LAMBDA r : r.address1)
    IN  [index |-> idx,
         dtype |-> [c \in {"qty_shrink_per_day"} |-> "float64"],
         data  |-> [c \in {"qty_shrink_per_day"} |->
                      Map(idx, LAMBDA a :
                          Mean(Map(RowsOf(df, a),
                                   LAMBDA r : r.qty_shrink_per_day)))]]

\* df.groupby(['address1']).mean()[[...]] with address1 as the index.
GroupbyMean(df) ==
    LET idx == SortedSeq({r.address1 : r \in Range(df)})
    IN  [index |-> idx,
         dtype |-> [c \in {"qty_shrink_per_day"} |-> "float64"],
         data  |-> [c \in {"qty_shrink_per_day"} |->
                      Map(idx, LAMBDA a :
                          Mean(Map(RowsOf(df, a),
                                   LAMBDA r : r.qty_shrink_per_day)))]]

\* t.join(other, how='left'): the rows of t are kept; a row whose label is
\* not in other gets NaN.  The index of other is unique.
JoinLeft(t, other) ==
    [index |-> t.index,
     dtype |-> [c \in Columns(t) \cup Columns(other) |->
                  IF c \in Columns(t) THEN t.dtype[c] ELSE other.dtype[c]],
     data  |-> [c \in Columns(t) \cup Columns(other) |->
                  IF c \in Columns(t) THEN t.data[c]
                  ELSE Map(t.index, LAMBDA a :
                        IF \E j \in DOMAIN other.index : other.index[j] = a
                        THEN other.data[c][CHOOSE j \in DOMAIN other.index :
                                               other.index[j] = a]
                        ELSE NaN)]]

\* try: del t['latitude']; del t['longitude']  except: pass
DelCoords(t) ==
    IF "latitude" \in Columns(t)
    THEN IF "longitude" \in Columns(DelCol(t, "latitude"))
         THEN DelCol(DelCol(t, "latitude"), "longitude")
         ELSE DelCol(t, "latitude")
    ELSE t

add_cols(t, df) ==
    LET t1 == SetCol(t, "avg_UPC_per_visit", "float64",
                     Map(t.index, LAMBDA a : avg_UPC_per_visit(df, a)))
        t2 == SetCol(t1, "days_between_visits", "float64",
                     Map(t.index, LAMBDA a : days_between_visits(df, a)))
    IN  SetCol(t2, "last_visit", "datetime64",
               Map(t.index, LAMBDA a : last_visit(df, a)))

FloatCols(t) == {c \in Columns(t) : t.dtype[c] = "float64"}

\* The columns the code excludes from clustering (lines 112-113).
VisitCols == {"avg_UPC_per_visit", "days_between_visits"}

\* A clustering that only rejects missing values and accepts fewer samples
\* than clusters.
KMeansRaises_nan_only(t, cols, k) ==
    \E c \in cols : \E i \in DOMAIN t.index : IsNaN(t.data[c][i])

\* sklearn's KMeans(n_clusters=k).fit_predict(t[cols]) raises ValueError on
\* a NaN and when there are fewer samples than clusters.
KMeansRaises(t, cols, k) ==
    \/ Len(t.index) < k
    \/ \E c \in cols : \E i \in DOMAIN t.index : IsNaN(t.data[c][i])

\* pred.astype(str)
astype_str(pred) == Map(pred, LAMBDA n : IntToStr(n))

(***************************************************************************)
(* State.                                                                  *)
(***************************************************************************)
VARIABLES
    \* files
    cust_add_file,     \* ../data/SRP/custs_by_address.pkl: <<>> or <<table>>
    cust_table_out,    \* ../data/SRP/cust_table_out.pkl: <<>> or <<table>>
    forc_data_file,    \* ../data/SRP/clean_data_public_..._300k.pkl
    \* the CustSeg object and the call in progress on it
    df,                \* the table the caller of CustSeg holds and passes in
    clusters,          \* CustSeg.clusters
    plot_clusts,       \* CustSeg.plot_clusts
    plot_sil,          \* CustSeg.plot_sil
    self_df,           \* CustSeg.df: <<>> (unset) or <<table>>
    cust_table,        \* CustSeg.cust_table
    std_cust_table,    \* CustSeg.std_cust_table
    shrink_cust_cols,  \* CustSeg.shrink_cust_cols
    cs_pc,             \* position in the CustSeg call
    op,                \* the CustSeg method called last
    err,               \* the exception a raising call raised
    ret,               \* the value transform returned
    last_transform,    \* history: <<table>> the last transform returned
    \* run_cust_seg
    rcs_pc,            \* position in run_cust_seg
    rcs_df,            \* its argument df
    load_table,        \* its argument load_table
    num_clusts,        \* its argument num_clusts
    plots,             \* its arguments plot_clusts and plot_sil
    rcs_ret,           \* the table it returned
    \* __main__, run_pred_model and run_forc_model
    main_pc,           \* position in __main__
    cfg,               \* the user input fields of lines 185-190
    main_df,           \* df of __main__
    main_cust_table,   \* cust_table of __main__: <<>> or <<table>>
    fn_pc,             \* position in run_pred_model or run_forc_model
    df_lag,            \* their local df_lag
    df_public,         \* their local df_public: <<>> (unbound) or <<table>>
    df_agg,            \* run_forc_model's local df_agg
    successful,        \* run_forc_model's local flag
    X,                 \* the feature table and its train and test parts
    X_train,
    X_test,
    ss,                \* the StdScale object: <<>> (unfitted) or <<params>>
    X_ss,
    X_train_ss,
    X_test_ss,
    log                \* history: the stages run, in order

files == <<cust_add_file, cust_table_out, forc_data_file>>

cs_vars == <<clusters, plot_clusts, plot_sil, self_df, cust_table,
             std_cust_table, shrink_cust_cols>>

rcs_vars == <<rcs_pc, rcs_df, load_table, num_clusts, plots, rcs_ret>>

fn_vars == <<fn_pc, df_lag, df_public, df_agg, successful, X, X_train,
             X_test, ss, X_ss, X_train_ss, X_test_ss>>

main_vars == <<main_pc, cfg, main_df, main_cust_table, fn_vars, log>>

vars == <<files, df, cs_vars, cs_pc, op, err, ret, last_transform, rcs_vars,
          main_vars>>

\* The external per-store table: which coordinate columns it has, and
\* whether it has a row for every store or lacks the last one.
CustAddTable(idx, cols) ==
    [index |-> SortedSeq(idx),
     dtype |-> [c \in cols |-> "float64"],
     data  |-> [c \in cols |-> Map(SortedSeq(idx), LAMBDA a : Flt(a))]]

CustAddTables ==
    {CustAddTable(idx, cols) :
        idx \in {Stores, Stores \ {NumStores}},
        cols \in SUBSET {"latitude", "longitude"}}

NoCfg == [load_table |-> FALSE, load_forc_data |-> FALSE, num_clusts |-> 0,
          split_date |-> 0]

InitCustSeg ==
    /\ clusters = 0
    /\ plot_clusts = FALSE
    /\ plot_sil = FALSE
    /\ self_df = <<>>
    /\ cust_table = NoTable
    /\ std_cust_table = NoTable
    /\ shrink_cust_cols = {}
    /\ cs_pc = "new"
    /\ op = "none"
    /\ err = "none"
    /\ ret = NoTable
    /\ last_transform = <<>>

InitRunCustSeg ==
    /\ rcs_pc = "idle"
    /\ rcs_df = <<>>
    /\ load_table = FALSE
    /\ num_clusts = 0
    /\ plots = <<FALSE, FALSE>>
    /\ rcs_ret = NoTable

InitFn ==
    /\ fn_pc = "idle"
    /\ df_lag = <<>>
    /\ df_public = <<>>
    /\ df_agg = <<>>
    /\ successful = FALSE
    /\ X = NoTable
    /\ X_train = NoTable
    /\ X_test = NoTable
    /\ ss = <<>>
    /\ X_ss = NoTable
    /\ X_train_ss = NoTable
    /\ X_test_ss = NoTable

InitMain ==
    /\ main_pc = "idle"
    /\ cfg = NoCfg
    /\ main_df = <<>>
    /\ main_cust_table = <<>>
    /\ InitFn
    /\ log = <<>>

(***************************************************************************)
(* CustSeg: the methods.                                                   *)
(***************************************************************************)
Raise(e) ==
    /\ cs_pc' = "raised"
    /\ err' = e

\* CustSeg(clusters=k, plot_clusts=pc, plot_sil=ps): a new object.
CustSeg_init(k, pc, ps) ==
    /\ clusters' = k
    /\ plot_clusts' = pc
    /\ plot_sil' = ps
    /\ self_df' = <<>>
    /\ cust_table' = NoTable
    /\ std_cust_table' = NoTable
    /\ shrink_cust_cols' = {}
    /\ cs_pc' = "idle"
    /\ op' = "__init__"
    /\ err' = "none"
    /\ ret' = NoTable

\* fit_transform (sklearn's TransformerMixin, called at run_pipeline.py
\* line 50) is fit, once, and then transform.
fit ==
    /\ cs_pc = "idle"
    /\ rcs_pc = "fit_transform" => op = "__init__"
    /\ op' = "fit"
    /\ UNCHANGED <<files, df, cs_vars, cs_pc, err, ret, last_transform,
                   rcs_vars, main_vars>>

\* A transform that cleans the caller's frame in place instead of working
\* on a copy.
transform_inplace ==
    /\ cs_pc = "idle"
    /\ rcs_pc = "fit_transform" => op = "fit"
    /\ df' = SelectSeq(df, LAMBDA r : ~IsNaN(r.qty_shrink_per_day))
    /\ self_df' = <<df'>>
    /\ cs_pc' = "build_cust_table"
    /\ op' = "transform"
    /\ UNCHANGED <<files, clusters, plot_clusts, plot_sil, cust_table,
                   std_cust_table, shrink_cust_cols, err, ret,
                   last_transform, rcs_vars, main_vars>>

\* transform, line 162: self.df = df.copy()
transform ==
    /\ cs_pc = "idle"
    /\ rcs_pc = "fit_transform" => op = "fit"
    /\ self_df' = <<df>>
    /\ cs_pc' = "build_cust_table"
    /\ op' = "transform"
    /\ UNCHANGED <<files, df, clusters, plot_clusts, plot_sil, cust_table,
                   std_cust_table, shrink_cust_cols, err, ret,
                   last_transform, rcs_vars, main_vars>>

\* build_cust_table, with the _add_cols call that ends it.  Each assignment
\* to self.cust_table made before an exception stays.  On a table without
\* rows the apply of line 74 gives a frame, not a column, and the
\* assignment raises.
build_cust_table ==
    /\ cs_pc = "build_cust_table"
    /\ IF cust_add_file = <<>>
       THEN /\ cust_table' = GroupbyMean(self_df[1])
            /\ Raise("FileNotFoundError")
       ELSE LET joined == DelCoords(JoinLeft(GroupbyMean(self_df[1]),
                                             cust_add_file[1]))
            IN  IF joined.index = <<>>
                THEN /\ cust_table' =
                          SetCol(joined, "avg_UPC_per_visit", "float64", <<>>)
                     /\ Raise("ValueError")
                ELSE /\ cust_table' = add_cols(joined, self_df[1])
                     /\ cs_pc' = "_std_cust_table"
                     /\ err' = err
    /\ UNCHANGED <<files, df, clusters, plot_clusts, plot_sil, self_df,
                   std_cust_table, shrink_cust_cols, op, ret, last_transform,
                   rcs_vars, main_vars>>

\* StdScale(std=True, scale=...).  fit gives, for every float column but
\* the two visit columns, the column's mean and, when scaling, its
\* variance.  transform centres those columns; when scaling, a value is
\* the pair <<x - mean, variance>>: x - mean over the variance's root.
FMul(x, y) ==
    IF IsNaN(x) \/ IsNaN(y) THEN NaN ELSE Div(x[1] * y[1], x[2] * y[2])

Variance(s) ==
    Mean(Map(NotNaN(s), LAMBDA x : FMul(FSub(x, Mean(s)), FSub(x, Mean(s)))))

StdScale_fit(t, scale) ==
    [c \in FloatCols(t) \ VisitCols |->
        [mean |-> Mean(t.data[c]),
         var  |-> IF scale THEN Variance(t.data[c]) ELSE Flt(1)]]

StdScale_transform(params, t, scale) ==
    [index |-> t.index,
     dtype |-> t.dtype,
     data  |-> [c \in Columns(t) |->
                  IF c \in DOMAIN params
                  THEN Map(t.data[c], LAMBDA x :
                         IF scale
                         THEN <<FSub(x, params[c].mean), params[c].var>>
                         ELSE FSub(x, params[c].mean))
                  ELSE t.data[c]]]

\* TransformerMixin.fit_transform: fit on t, then transform t.
StdScale_fit_transform(t, scale) ==
    StdScale_transform(StdScale_fit(t, scale), t, scale)

_std_cust_table ==
    /\ cs_pc = "_std_cust_table"
    /\ std_cust_table' = StdScale_fit_transform(cust_table, FALSE)
    /\ cs_pc' = "_cluster"
    /\ UNCHANGED <<files, df, clusters, plot_clusts, plot_sil, self_df,
                   cust_table, shrink_cust_cols, op, err, ret,
                   last_transform, rcs_vars, main_vars>>

\* The labels KMeans may give n samples: any assignment to 0..k-1.
KMeansLabels(n, k) == [1..n -> 0..(k - 1)]

_cluster ==
    /\ cs_pc = "_cluster"
    /\ shrink_cust_cols' = FloatCols(cust_table) \ VisitCols
    /\ IF KMeansRaises(std_cust_table, shrink_cust_cols', clusters)
       THEN /\ Raise("ValueError")
            /\ UNCHANGED <<cust_table, std_cust_table>>
       ELSE \E pred \in KMeansLabels(Len(cust_table.index), clusters) :
            /\ std_cust_table' =
                 SetCol(std_cust_table, "cluster", "object", astype_str(pred))
            /\ cust_table' =
                 SetCol(cust_table, "cluster", "object", astype_str(pred))
            /\ cs_pc' = "plot"
            /\ err' = err
    /\ UNCHANGED <<files, df, clusters, plot_clusts, plot_sil, self_df, op,
                   ret, last_transform, rcs_vars, main_vars>>

\* Lines 166-169: plot_clust and plot_ss run only when asked for; what they
\* call (PCA, matplotlib, clust_functions) may raise.
plot ==
    /\ cs_pc = "plot"
    /\ \E raises \in (IF plot_clusts \/ plot_sil THEN BOOLEAN ELSE {FALSE}) :
        IF raises
        THEN Raise("PlotError")
        ELSE /\ cs_pc' = "to_pickle"
             /\ err' = err
    /\ UNCHANGED <<files, df, cs_vars, op, ret, last_transform, rcs_vars,
                   main_vars>>

\* A transform that stores the standardized table instead of the table it
\* returns.
to_pickle_std ==
    /\ cs_pc = "to_pickle"
    /\ \E written \in BOOLEAN :
        IF written
        THEN /\ cust_table_out' = <<std_cust_table>>
             /\ ret' = cust_table
             /\ last_transform' = <<cust_table>>
             /\ cs_pc' = "returned"
             /\ err' = err
        ELSE /\ Raise("OSError")
             /\ UNCHANGED <<cust_table_out, ret, last_transform>>
    /\ UNCHANGED <<cust_add_file, forc_data_file, df, cs_vars, op, rcs_vars,
                   main_vars>>

\* Lines 170-171: write the table, then return it; the write may raise.
to_pickle ==
    /\ cs_pc = "to_pickle"
    /\ \E written \in BOOLEAN :
        IF written
        THEN /\ cust_table_out' = <<cust_table>>
             /\ ret' = cust_table
             /\ last_transform' = <<cust_table>>
             /\ cs_pc' = "returned"
             /\ err' = err
        ELSE /\ Raise("OSError")
             /\ UNCHANGED <<cust_table_out, ret, last_transform>>
    /\ UNCHANGED <<cust_add_file, forc_data_file, df, cs_vars, op, rcs_vars,
                   main_vars>>

(***************************************************************************)
(* A client of CustSeg: it builds one object, then calls fit and           *)
(* transform on its table.                                                 *)
(***************************************************************************)
new_CustSeg ==
    /\ cs_pc = "new"
    /\ \E k \in 1..MaxClusters, pc \in BOOLEAN, ps \in BOOLEAN :
        CustSeg_init(k, pc, ps)
    /\ UNCHANGED <<files, df, last_transform, rcs_vars, main_vars>>

Qtys == {NaN, Flt(1)}

InitClient(tables) ==
    /\ df \in tables
    /\ cust_add_file \in {<<>>} \cup {<<t>> : t \in CustAddTables}
    /\ cust_table_out = <<>>
    /\ forc_data_file = <<>>
    /\ InitCustSeg
    /\ InitRunCustSeg
    /\ InitMain

Init == InitClient(Tables(OneDate, OneUPC, Qtys, MaxRows))

Next ==
    \/ new_CustSeg
    \/ fit
    \/ transform
    \/ build_cust_table
    \/ _std_cust_table
    \/ _cluster
    \/ plot
    \/ to_pickle

Spec == Init /\ [][Next]_vars

\* The same client on tables of visits: one row per visit, up to MaxVisits
\* rows, on the dates of VisitDates.
InitVisits == InitClient(Tables(VisitDates, OneUPC, {Flt(1)}, MaxVisits))

SpecVisits == InitVisits /\ [][Next]_vars

\* The same client on tables of item rows: two dates, two items, and
\* qty_shrink_per_day missing in some rows.
InitItems == InitClient(Tables(TwoDates, TwoUPCs, Qtys, MaxRows))

SpecItems == InitItems /\ [][Next]_vars

(***************************************************************************)
(* The stages of the pipeline that run_pipeline.py imports.                *)
(***************************************************************************)
HasNaN(r) == IsNaN(r.qty_shrink_per_day)

\* DataClean(remove_nan_rows=True): the rows without a missing value.
DataClean(t) == SelectSeq(t, LAMBDA r : ~HasNaN(r))

\* PublicData(include_crime=False, remove_nan_rows=True): the public
\* attributes are joined onto each row and rows with a missing value go.
PublicData(t) == SelectSeq(t, LAMBDA r : ~HasNaN(r))

lag_periods == 2

\* The rows of t of the group of r (same store; same item too when the
\* lags are by category) with an earlier date, in date order.
Earlier(t, r, by_cat) ==
    SelectSeq(t, LAMBDA s : /\ s.address1 = r.address1
                            /\ by_cat => s.UPC = r.UPC
                            /\ s.visit_date < r.visit_date)

\* CreateLag(lag_periods=2, ..., remove_nan_rows=True): every row gets the
\* value of its group one and two periods earlier; a row with fewer than
\* lag_periods earlier periods is dropped.
CreateLag(t, by_cat) ==
    Map(SelectSeq(t, LAMBDA r : Len(Earlier(t, r, by_cat)) >= lag_periods),
        LAMBDA r :
          LET e == Earlier(t, r, by_cat)
          IN  [address1 |-> r.address1, visit_date |-> r.visit_date,
               UPC |-> r.UPC, qty_shrink_per_day |-> r.qty_shrink_per_day,
               lag1 |-> e[Len(e)].qty_shrink_per_day,
               lag2 |-> e[Len(e) - 1].qty_shrink_per_day])

\* The cluster label of a store in the customer table ("nan" without one).
ClusterOf(ct, add) ==
    IF "cluster" \in Columns(ct) /\ \E i \in DOMAIN ct.index : ct.index[i] = add
    THEN ct.data["cluster"][CHOOSE i \in DOMAIN ct.index : ct.index[i] = add]
    ELSE "nan"

\* Split: the feature table of the rows at the positions rows of t, the
\* target and the leaking columns removed, the cluster label joined in.
Features(ct, t, rows) ==
    [index |-> rows,
     dtype |-> [c \in {"lag1", "lag2", "cluster"} |->
                  IF c = "cluster" THEN "object" ELSE "float64"],
     data  |-> [c \in {"lag1", "lag2", "cluster"} |->
                  Map(rows, LAMBDA i :
                      IF c = "lag1" THEN t[i].lag1
                      ELSE IF c = "lag2" THEN t[i].lag2
                      ELSE ClusterOf(ct, t[i].address1))]]

Positions(t, Keep(_)) == SortedSeq({i \in DOMAIN t : Keep(t[i])})

(***************************************************************************)
(* run_cust_seg.                                                           *)
(***************************************************************************)
\* The log of a run of __main__ with one more stage (there is no log
\* outside a run of __main__).
Logged(stage) == IF main_pc = "idle" THEN log ELSE Append(log, stage)

\* The CustSeg object of a finished call is out of reach.
drop_CustSeg ==
    /\ df' = <<>>
    /\ clusters' = 0
    /\ plot_clusts' = FALSE
    /\ plot_sil' = FALSE
    /\ self_df' = <<>>
    /\ cust_table' = NoTable
    /\ std_cust_table' = NoTable
    /\ shrink_cust_cols' = {}
    /\ cs_pc' = "new"
    /\ op' = "none"
    /\ ret' = NoTable

\* run_cust_seg(d, load_table=l, num_clusts=k, plot_clusts=p[1],
\* plot_sil=p[2]) is called.
run_cust_seg(d, l, k, p) ==
    /\ rcs_df' = d
    /\ load_table' = l
    /\ num_clusts' = k
    /\ plots' = p
    /\ rcs_ret' = NoTable
    /\ rcs_pc' = "load_table"

\* Lines 37-42: with load_table, return the stored table if it can be read.
rcs_read_pickle ==
    /\ rcs_pc = "load_table"
    /\ IF load_table /\ cust_table_out # <<>>
       THEN /\ rcs_ret' = cust_table_out[1]
            /\ rcs_pc' = "returned"
            /\ log' = Logged("read_pickle cust_table_out")
       ELSE /\ rcs_ret' = rcs_ret
            /\ rcs_pc' = "PublicData"
            /\ log' = IF load_table
                      THEN Logged("read_pickle cust_table_out failed")
                      ELSE log
    /\ UNCHANGED <<files, df, cs_vars, cs_pc, op, err, ret, last_transform,
                   rcs_df, load_table, num_clusts, plots, main_pc,
                   cfg, main_df, main_cust_table, fn_vars>>

\* A run_cust_seg that hands the frame to CustSeg without the PublicData
\* stage.
rcs_PublicData_skipped ==
    /\ rcs_pc = "PublicData"
    /\ df' = rcs_df
    /\ rcs_pc' = "CustSeg"
    /\ UNCHANGED <<files, cs_vars, cs_pc, op, err, ret, last_transform,
                   rcs_df, load_table, num_clusts, plots, rcs_ret,
                   main_vars>>

\* Lines 45-46.
rcs_PublicData ==
    /\ rcs_pc = "PublicData"
    /\ df' = PublicData(rcs_df)
    /\ rcs_pc' = "CustSeg"
    /\ log' = Logged("PublicData")
    /\ UNCHANGED <<files, cs_vars, cs_pc, op, err, ret, last_transform,
                   rcs_df, load_table, num_clusts, plots, rcs_ret,
                   main_pc, cfg, main_df, main_cust_table, fn_vars>>

\* Lines 49-50: the object is built and fit_transform called on it.
rcs_CustSeg ==
    /\ rcs_pc = "CustSeg"
    /\ CustSeg_init(num_clusts, plots[1], plots[2])
    /\ rcs_pc' = "fit_transform"
    /\ log' = Logged("CustSeg")
    /\ UNCHANGED <<files, df, last_transform, rcs_df, load_table, num_clusts,
                   plots, rcs_ret, main_pc, cfg, main_df,
                   main_cust_table, fn_vars>>

\* Line 51.
rcs_return ==
    /\ rcs_pc = "fit_transform"
    /\ cs_pc = "returned"
    /\ rcs_ret' = ret
    /\ rcs_pc' = "returned"
    /\ drop_CustSeg
    /\ UNCHANGED <<files, err, last_transform, rcs_df, load_table,
                   num_clusts, plots, main_vars>>

\* An exception of fit_transform leaves run_cust_seg.
rcs_raise ==
    /\ rcs_pc = "fit_transform"
    /\ cs_pc = "raised"
    /\ rcs_pc' = "raised"
    /\ drop_CustSeg
    /\ UNCHANGED <<files, err, last_transform, rcs_df, load_table,
                   num_clusts, plots, rcs_ret, main_vars>>

(***************************************************************************)
(* A caller of run_cust_seg: any number of calls, one after the other,     *)
(* each with its own arguments.                                            *)
(***************************************************************************)
\* The tables a call is given: at most one row per store.
CallTables ==
    {t \in Tables(OneDate, OneUPC, {Flt(1)}, NumStores) :
        \A i, j \in DOMAIN t : t[i].address1 = t[j].address1 => i = j}

call_run_cust_seg ==
    /\ rcs_pc \in {"idle", "returned", "raised"}
    /\ \E d \in CallTables, l \in BOOLEAN,
          k \in 1..MaxClusters, p \in {<<FALSE, FALSE>>, <<TRUE, TRUE>>} :
        run_cust_seg(d, l, k, p)
    /\ UNCHANGED <<files, df, cs_vars, cs_pc, op, err, ret, last_transform,
                   main_vars>>

InitCache ==
    /\ df = <<>>
    /\ cust_add_file = <<CustAddTable(Stores, {"latitude", "longitude"})>>
    /\ cust_table_out = <<>>
    /\ forc_data_file = <<>>
    /\ InitCustSeg
    /\ InitRunCustSeg
    /\ InitMain

NextCache ==
    \/ call_run_cust_seg
    \/ rcs_read_pickle
    \/ rcs_PublicData
    \/ rcs_CustSeg
    \/ fit
    \/ transform
    \/ build_cust_table
    \/ _std_cust_table
    \/ _cluster
    \/ plot
    \/ to_pickle
    \/ rcs_return
    \/ rcs_raise

SpecCache == InitCache /\ [][NextCache]_vars

(***************************************************************************)
(* run_pred_model.                                                         *)
(***************************************************************************)
\* The locals of a model function that has returned are gone.
drop_locals ==
    /\ df_lag' = <<>>
    /\ df_public' = <<>>
    /\ df_agg' = <<>>
    /\ successful' = FALSE
    /\ X' = NoTable
    /\ X_train' = NoTable
    /\ X_test' = NoTable
    /\ ss' = <<>>
    /\ X_ss' = NoTable
    /\ X_train_ss' = NoTable
    /\ X_test_ss' = NoTable

outer == <<files, df, cs_vars, cs_pc, op, ret, last_transform, rcs_vars, cfg,
           main_df, main_cust_table>>

\* Lines 70-74: lags by store and item category.
pm_CreateLag ==
    /\ main_pc = "run_pred_model"
    /\ fn_pc = "CreateLag"
    /\ df_lag' = CreateLag(main_df, TRUE)
    /\ fn_pc' = "PublicData"
    /\ log' = Append(log, "CreateLag")
    /\ UNCHANGED <<outer, err, main_pc, df_public, df_agg, successful, X,
                   X_train, X_test, ss, X_ss, X_train_ss, X_test_ss>>

\* Lines 76-78.
pm_PublicData ==
    /\ main_pc = "run_pred_model"
    /\ fn_pc = "PublicData"
    /\ df_public' = <<PublicData(df_lag)>>
    /\ fn_pc' = "Split"
    /\ log' = Append(log, "PublicData")
    /\ UNCHANGED <<outer, err, main_pc, df_lag, df_agg, successful, X,
                   X_train, X_test, ss, X_ss, X_train_ss, X_test_ss>>

\* Lines 80-83: Split(split_by_time=False) puts any part of the rows in
\* the test set.
pm_Split ==
    /\ main_pc = "run_pred_model"
    /\ fn_pc = "Split"
    /\ \E test \in SUBSET DOMAIN df_public[1] :
        /\ X' = Features(main_cust_table[1], df_public[1],
                         SortedSeq(DOMAIN df_public[1]))
        /\ X_train' = Features(main_cust_table[1], df_public[1],
                               SortedSeq(DOMAIN df_public[1] \ test))
        /\ X_test' = Features(main_cust_table[1], df_public[1],
                              SortedSeq(test))
    /\ fn_pc' = "StdScale_train"
    /\ log' = Append(log, "Split")
    /\ UNCHANGED <<outer, err, main_pc, df_lag, df_public, df_agg, successful,
                   ss, X_ss, X_train_ss, X_test_ss>>

\* Lines 86-87: ss = StdScale(std=True, scale=True); ss.fit_transform(X_train)
pm_StdScale_train ==
    /\ main_pc = "run_pred_model"
    /\ fn_pc = "StdScale_train"
    /\ ss' = <<StdScale_fit(X_train, TRUE)>>
    /\ X_train_ss' = StdScale_transform(ss'[1], X_train, TRUE)
    /\ fn_pc' = "StdScale_test"
    /\ log' = Append(log, "StdScale")
    /\ UNCHANGED <<outer, err, main_pc, df_lag, df_public, df_agg, successful,
                   X, X_train, X_test, X_ss, X_test_ss>>

\* Line 88: ss.fit_transform(X_test)
pm_StdScale_test ==
    /\ main_pc = "run_pred_model"
    /\ fn_pc = "StdScale_test"
    /\ ss' = <<StdScale_fit(X_test, TRUE)>>
    /\ X_test_ss' = StdScale_transform(ss'[1], X_test, TRUE)
    /\ fn_pc' = "PredModel"
    /\ UNCHANGED <<outer, err, main_pc, df_lag, df_public, df_agg, successful,
                   X, X_train, X_test, X_ss, X_train_ss, log>>

\* Lines 90-102: the model is fitted, plotted and returned; line 237 calls
\* run_forc_model next.
pm_PredModel ==
    /\ main_pc = "run_pred_model"
    /\ fn_pc = "PredModel"
    /\ log' = Append(log, "PredModel")
    /\ drop_locals
    /\ main_pc' = "run_forc_model"
    /\ fn_pc' = "read_pickle"
    /\ UNCHANGED <<outer, err>>

\* A run_forc_model that sets successful before the read is known to have
\* worked.
fm_read_pickle_flag_first ==
    /\ main_pc = "run_forc_model"
    /\ fn_pc = "read_pickle"
    /\ successful' = cfg.load_forc_data
    /\ IF cfg.load_forc_data /\ forc_data_file # <<>>
       THEN /\ df_public' = <<forc_data_file[1]>>
            /\ log' = Append(log, "read_pickle forc_data")
       ELSE /\ UNCHANGED df_public
            /\ log' = IF cfg.load_forc_data
                      THEN Append(log, "read_pickle forc_data failed")
                      ELSE log
    /\ fn_pc' = IF successful' THEN "groupby" ELSE "CreateLag"
    /\ UNCHANGED <<outer, err, main_pc, df_lag, df_agg, X, X_train, X_test,
                   ss, X_ss, X_train_ss, X_test_ss>>

(***************************************************************************)
(* run_forc_model.                                                         *)
(***************************************************************************)
\* Lines 122-130.
fm_read_pickle ==
    /\ main_pc = "run_forc_model"
    /\ fn_pc = "read_pickle"
    /\ IF cfg.load_forc_data /\ forc_data_file # <<>>
       THEN /\ df_public' = <<forc_data_file[1]>>
            /\ successful' = TRUE
            /\ log' = Append(log, "read_pickle forc_data")
       ELSE /\ UNCHANGED <<df_public, successful>>
            /\ log' = IF cfg.load_forc_data
                      THEN Append(log, "read_pickle forc_data failed")
                      ELSE log
    /\ fn_pc' = IF successful' THEN "groupby" ELSE "CreateLag"
    /\ UNCHANGED <<outer, err, main_pc, df_lag, df_agg, X, X_train, X_test,
                   ss, X_ss, X_train_ss, X_test_ss>>

\* Lines 131-135: lags by store.
fm_CreateLag ==
    /\ main_pc = "run_forc_model"
    /\ fn_pc = "CreateLag"
    /\ df_lag' = CreateLag(main_df, FALSE)
    /\ fn_pc' = "PublicData"
    /\ log' = Append(log, "CreateLag")
    /\ UNCHANGED <<outer, err, main_pc, df_public, df_agg, successful, X,
                   X_train, X_test, ss, X_ss, X_train_ss, X_test_ss>>

\* Lines 137-139.
fm_PublicData ==
    /\ main_pc = "run_forc_model"
    /\ fn_pc = "PublicData"
    /\ df_public' = <<PublicData(df_lag)>>
    /\ fn_pc' = "groupby"
    /\ log' = Append(log, "PublicData")
    /\ UNCHANGED <<outer, err, main_pc, df_lag, df_agg, successful, X,
                   X_train, X_test, ss, X_ss, X_train_ss, X_test_ss>>

RECURSIVE Flatten(_)
Flatten(ss_) == IF ss_ = <<>> THEN <<>> ELSE Head(ss_) \o Flatten(Tail(ss_))

\* t.groupby(['address1', 'visit_date']).mean().sort_index().reset_index()
GroupbyVisit(t) ==
    LET keys == Flatten(Map(SortedSeq(StoresOf(t)), LAMBDA a :
                            Map(Visits(t, a), LAMBDA d : <<a, d>>)))
        rows(k) == SelectSeq(t, LAMBDA r : /\ r.address1 = k[1]
                                           /\ r.visit_date = k[2])
    IN  Map(keys, LAMBDA k :
            [address1 |-> k[1], visit_date |-> k[2],
             qty_shrink_per_day |->
                 Mean(Map(rows(k), LAMBDA r : r.qty_shrink_per_day)),
             lag1 |-> Mean(Map(rows(k), LAMBDA r : r.lag1)),
             lag2 |-> Mean(Map(rows(k), LAMBDA r : r.lag2))])

\* Line 142; df_public is unbound if no branch above assigned it.
fm_groupby ==
    /\ main_pc = "run_forc_model"
    /\ fn_pc = "groupby"
    /\ IF df_public = <<>>
       THEN /\ main_pc' = "failed"
            /\ err' = "NameError"
            /\ UNCHANGED <<df_agg, fn_pc>>
       ELSE /\ df_agg' = GroupbyVisit(df_public[1])
            /\ fn_pc' = "Split"
            /\ UNCHANGED <<main_pc, err>>
    /\ UNCHANGED <<outer, df_lag, df_public, successful, X, X_train, X_test,
                   ss, X_ss, X_train_ss, X_test_ss, log>>

\* Lines 144-148: Split(split_by_time=True): the rows dated split_date or
\* later are the test set.
fm_Split ==
    /\ main_pc = "run_forc_model"
    /\ fn_pc = "Split"
    /\ X' = Features(main_cust_table[1], df_agg, SortedSeq(DOMAIN df_agg))
    /\ X_train' = Features(main_cust_table[1], df_agg,
                       Positions(df_agg, LAMBDA r : r.visit_date < cfg.split_date))
    /\ X_test' = Features(main_cust_table[1], df_agg,
                      Positions(df_agg, LAMBDA r : r.visit_date >= cfg.split_date))
    /\ fn_pc' = "StdScale_X"
    /\ log' = Append(log, "Split")
    /\ UNCHANGED <<outer, err, main_pc, df_lag, df_public, df_agg, successful,
                   ss, X_ss, X_train_ss, X_test_ss>>

\* Lines 151-152.
fm_StdScale_X ==
    /\ main_pc = "run_forc_model"
    /\ fn_pc = "StdScale_X"
    /\ ss' = <<StdScale_fit(X, TRUE)>>
    /\ X_ss' = StdScale_transform(ss'[1], X, TRUE)
    /\ fn_pc' = "StdScale_train"
    /\ log' = Append(log, "StdScale")
    /\ UNCHANGED <<outer, err, main_pc, df_lag, df_public, df_agg, successful,
                   X, X_train, X_test, X_train_ss, X_test_ss>>

\* Line 153.
fm_StdScale_train ==
    /\ main_pc = "run_forc_model"
    /\ fn_pc = "StdScale_train"
    /\ ss' = <<StdScale_fit(X_train, TRUE)>>
    /\ X_train_ss' = StdScale_transform(ss'[1], X_train, TRUE)
    /\ fn_pc' = "StdScale_test"
    /\ UNCHANGED <<outer, err, main_pc, df_lag, df_public, df_agg, successful,
                   X, X_train, X_test, X_ss, X_test_ss, log>>

\* Line 154.
fm_StdScale_test ==
    /\ main_pc = "run_forc_model"
    /\ fn_pc = "StdScale_test"
    /\ ss' = <<StdScale_fit(X_test, TRUE)>>
    /\ X_test_ss' = StdScale_transform(ss'[1], X_test, TRUE)
    /\ fn_pc' = "Forecast"
    /\ UNCHANGED <<outer, err, main_pc, df_lag, df_public, df_agg, successful,
                   X, X_train, X_test, X_ss, X_train_ss, log>>

\* Lines 156-181: the forecast model is fitted, plotted, and the forecast
\* returned; the script ends.
fm_Forecast ==
    /\ main_pc = "run_forc_model"
    /\ fn_pc = "Forecast"
    /\ log' = Append(log, "Forecast")
    /\ main_pc' = "done"
    /\ fn_pc' = "idle"
    /\ UNCHANGED <<outer, err, df_lag, df_public, df_agg, successful, X,
                   X_train, X_test, ss, X_ss, X_train_ss, X_test_ss>>

(***************************************************************************)
(* __main__.                                                               *)
(***************************************************************************)
\* Lines 202-206.
main_DataClean ==
    /\ main_pc = "read_and_clean"
    /\ main_df' = DataClean(main_df)
    /\ log' = Append(log, "DataClean")
    /\ main_pc' = "run_cust_seg"
    /\ UNCHANGED <<files, df, cs_vars, cs_pc, op, err, ret, last_transform,
                   rcs_vars, cfg, main_cust_table, fn_vars>>

\* Line 209, the call.  The script passes num_clusts=4; the model takes the
\* number from cfg so that runs on small tables can cluster.
main_run_cust_seg ==
    /\ main_pc = "run_cust_seg"
    /\ run_cust_seg(main_df, cfg.load_table, cfg.num_clusts, <<TRUE, TRUE>>)
    /\ main_pc' = "in_run_cust_seg"
    /\ UNCHANGED <<files, df, cs_vars, cs_pc, op, err, ret, last_transform,
                   cfg, main_df, main_cust_table, fn_vars, log>>

\* Lines 209-233: the table run_cust_seg returned is cust_table, and
\* run_pred_model is called.
main_cust_table_returned ==
    /\ main_pc = "in_run_cust_seg"
    /\ rcs_pc = "returned"
    /\ main_cust_table' = <<rcs_ret>>
    /\ main_pc' = "run_pred_model"
    /\ fn_pc' = "CreateLag"
    /\ UNCHANGED <<files, df, cs_vars, cs_pc, op, err, ret, last_transform,
                   rcs_vars, cfg, main_df, df_lag, df_public, df_agg,
                   successful, X, X_train, X_test, ss, X_ss, X_train_ss,
                   X_test_ss, log>>

\* An exception of run_cust_seg ends the script.
main_raise ==
    /\ main_pc = "in_run_cust_seg"
    /\ rcs_pc = "raised"
    /\ main_pc' = "failed"
    /\ UNCHANGED <<files, df, cs_vars, cs_pc, op, err, ret, last_transform,
                   rcs_vars, cfg, main_df, main_cust_table, fn_vars, log>>

\* The raw tables of a run: the visits of one store, one row per visit, on
\* any of the dates of VisitDates.
VisitTable(dates, qty) ==
    Map(SortedSeq(dates), LAMBDA d :
        [address1 |-> 1, visit_date |-> d, UPC |-> 1,
         qty_shrink_per_day |-> qty[d]])

RawTables ==
    {VisitTable(dates, qty) :
        dates \in SUBSET VisitDates, qty \in [VisitDates -> {Flt(1), Flt(2)}]}

SampleVisits ==
    [i \in 1..4 |-> [address1 |-> 1, visit_date |-> 10 * (i - 1), UPC |-> 1,
                     qty_shrink_per_day |-> Flt(1 + (i % 2))]]

\* What an earlier run left in cust_table_out.pkl and in the forecast data
\* file.
PriorCustTable ==
    SetCol(add_cols(GroupbyMean(SampleVisits), SampleVisits),
           "cluster", "object", <<"0">>)

PriorForcData == PublicData(CreateLag(SampleVisits, FALSE))

SplitDates == {20, 30}

InitPipe ==
    /\ df = <<>>
    /\ cust_add_file = <<CustAddTable(Stores, {"latitude", "longitude"})>>
    /\ cust_table_out \in {<<>>, <<PriorCustTable>>}
    /\ forc_data_file \in {<<>>, <<PriorForcData>>}
    /\ InitCustSeg
    /\ InitRunCustSeg
    /\ main_pc = "read_and_clean"
    /\ cfg \in [load_table : BOOLEAN, load_forc_data : BOOLEAN,
               num_clusts : 1..MaxClusters, split_date : SplitDates]
    /\ main_df \in RawTables
    /\ main_cust_table = <<>>
    /\ InitFn
    /\ log = <<>>

NextPipe ==
    \/ main_DataClean
    \/ main_run_cust_seg
    \/ rcs_read_pickle
    \/ rcs_PublicData
    \/ rcs_CustSeg
    \/ fit
    \/ transform
    \/ build_cust_table
    \/ _std_cust_table
    \/ _cluster
    \/ plot
    \/ to_pickle
    \/ rcs_return
    \/ rcs_raise
    \/ main_cust_table_returned
    \/ main_raise
    \/ pm_CreateLag
    \/ pm_PublicData
    \/ pm_Split
    \/ pm_StdScale_train
    \/ pm_StdScale_test
    \/ pm_PredModel
    \/ fm_read_pickle
    \/ fm_CreateLag
    \/ fm_PublicData
    \/ fm_groupby
    \/ fm_Split
    \/ fm_StdScale_X
    \/ fm_StdScale_train
    \/ fm_StdScale_test
    \/ fm_Forecast

SpecPipe == InitPipe /\ [][NextPipe]_vars

(***************************************************************************)
(* Properties.                                                            *)
(***************************************************************************)
AfterBuild == {"_std_cust_table", "_cluster", "plot", "to_pickle", "returned"}

AfterCluster == {"plot", "to_pickle", "returned"}

\* C1: whenever transform returns with clusters = k, the returned table has
\* exactly one row per distinct address1 of df, and every row has a cluster
\* label that is the string form of an integer in 0..k-1.
C1_OneLabelledRowPerStore ==
    cs_pc = "returned" =>
        /\ \A a \in StoresOf(df) :
             Cardinality({i \in DOMAIN ret.index : ret.index[i] = a}) = 1
        /\ \A i \in DOMAIN ret.index : ret.index[i] \in StoresOf(df)
        /\ "cluster" \in Columns(ret)
        /\ \A i \in DOMAIN ret.index :
             ret.data["cluster"][i] \in {IntToStr(j) : j \in 0..(clusters - 1)}

\* Two stores were clustered into two clusters and got different labels.
C1_Witness ==
    /\ cs_pc = "returned"
    /\ clusters = 2
    /\ Len(ret.index) = 2
    /\ ret.data["cluster"] = <<"1", "0">>

\* The dates of v, in order, are d days apart.
EvenlySpaced(v, d) == \A j \in 1..(Len(v) - 1) : v[j + 1] - v[j] = d

\* C2: a store whose n >= 2 distinct visit dates are evenly spaced d days
\* apart gets days_between_visits = d.
C2_EvenSpacingGivesSpacing ==
    cs_pc \in AfterBuild =>
        \A i \in DOMAIN cust_table.index :
            LET v == Visits(self_df[1], cust_table.index[i])
            IN  (Len(v) >= 2 /\ EvenlySpaced(v, v[2] - v[1])) =>
                    cust_table.data["days_between_visits"][i] = Flt(v[2] - v[1])

\* C3: transform raises, and returns no table, whenever the table has fewer
\* distinct stores than the requested number of clusters.
C3_FewerStoresThanClustersFails ==
    (op = "transform" /\ Cardinality(StoresOf(self_df[1])) < clusters) =>
        /\ cs_pc \notin AfterCluster
        /\ ret = NoTable
        /\ cust_table_out = <<>>

\* KMeans raised on a table of stores without any NaN, fewer than clusters.
C3_Witness ==
    /\ cs_pc = "raised"
    /\ err = "ValueError"
    /\ shrink_cust_cols # {}
    /\ Len(std_cust_table.index) > 0
    /\ Len(std_cust_table.index) < clusters
    /\ \A c \in shrink_cust_cols : \A i \in DOMAIN std_cust_table.index :
         ~IsNaN(std_cust_table.data[c][i])

\* C7: after build_cust_table the customer table has neither a latitude
\* nor a longitude column, whatever coordinate columns the external table
\* has, so no coordinate column takes part in clustering.
C7_NoCoordinateColumn ==
    /\ cs_pc \in AfterBuild =>
         Columns(cust_table) \cap {"latitude", "longitude"} = {}
    /\ shrink_cust_cols \cap {"latitude", "longitude"} = {}

\* The number of distinct items in the rows of one visit of a store.
DistinctItems(t, add, date) ==
    Cardinality({r.UPC : r \in {x \in Range(RowsOf(t, add)) : x.visit_date = date}})

\* C8: avg_UPC_per_visit of a store is the mean, over the store's distinct
\* visit dates, of the number of distinct items recorded in the visit.
C8_AvgDistinctItemsPerVisit ==
    cs_pc \in AfterBuild =>
        \A i \in DOMAIN cust_table.index :
            LET a == cust_table.index[i]
            IN  cust_table.data["avg_UPC_per_visit"][i] =
                    Mean(Map(Visits(self_df[1], a),
                             LAMBDA d : Flt(DistinctItems(self_df[1], a, d))))

\* C10: no step of transform changes the caller's table df, and fit changes
\* no state of the object (nor any file).
C10_InputAndFitFrame ==
    [][/\ df' = df
       /\ (op' = "fit" /\ op # "fit") =>
             UNCHANGED <<cs_vars, cs_pc, err, ret, files>>]_vars

\* transform returned after working on a copy of a frame that has a missing
\* value.
C10_Witness ==
    /\ cs_pc = "returned"
    /\ \E i \in DOMAIN df : IsNaN(df[i].qty_shrink_per_day)
    /\ self_df = <<df>>

\* C9: whenever transform returns, cust_table_out.pkl holds exactly the
\* returned table, cluster column included; the file is only ever written
\* after clustering succeeded; and a call of run_cust_seg with load_table
\* returns the table of the most recent successful transform, whatever its
\* df and num_clusts.
C9_FileIsLastTransform ==
    /\ cs_pc = "returned" =>
         /\ cust_table_out = <<ret>>
         /\ "cluster" \in Columns(ret)
    /\ cust_table_out # <<>> =>
         /\ "cluster" \in Columns(cust_table_out[1])
         /\ cust_table_out = last_transform
    /\ (rcs_pc = "returned" /\ load_table) => <<rcs_ret>> = last_transform

\* A call with load_table returned a stored table that has other stores
\* than the call's df and fewer stores than the call's num_clusts.
C9_Witness ==
    /\ rcs_pc = "returned"
    /\ load_table
    /\ Len(rcs_ret.index) > 0
    /\ Range(rcs_ret.index) # StoresOf(rcs_df)
    /\ Len(rcs_ret.index) < num_clusts

(***************************************************************************)
(* Properties of a run of __main__, stated on the log of its stages.       *)
(***************************************************************************)
Occurs(stage) == \E i \in DOMAIN log : log[i] = stage

\* The log entry after entry i is stage s, if there is one.
ThenNext(i, s) == i < Len(log) => log[i + 1] = s

\* The log entry before entry j is one of the stages of S.
Before(j, S) == j > 1 /\ log[j - 1] \in S

\* C4: a cached file that cannot be read makes run_cust_seg and
\* run_forc_model recompute (PublicData then CustSeg; CreateLag then
\* PublicData) instead of failing; a cached file that is read makes them
\* skip the recomputation; either way the table used next is defined.
C4_CacheFallback ==
    /\ \A i \in DOMAIN log :
        /\ log[i] = "read_pickle cust_table_out failed" =>
             /\ ThenNext(i, "PublicData")
             /\ ThenNext(i + 1, "CustSeg")
             /\ rcs_pc \in {"PublicData", "CustSeg", "fit_transform",
                            "returned", "raised"}
        /\ log[i] = "read_pickle cust_table_out" =>
             /\ ThenNext(i, "CreateLag")
             /\ rcs_pc = "returned"
             /\ ~Occurs("CustSeg")
        /\ log[i] = "read_pickle forc_data failed" =>
             /\ ThenNext(i, "CreateLag")
             /\ ThenNext(i + 1, "PublicData")
        /\ log[i] = "read_pickle forc_data" => ThenNext(i, "Split")
    /\ rcs_pc = "raised" => log[Len(log)] = "CustSeg"
    /\ main_pc = "failed" => (rcs_pc = "raised" /\ err # "NameError")
    /\ rcs_pc = "returned" => "cluster" \in Columns(rcs_ret)
    /\ main_pc \in {"run_pred_model", "run_forc_model", "done"} =>
         main_cust_table = <<rcs_ret>>
    /\ (main_pc = "run_forc_model" /\ fn_pc \notin {"read_pickle", "CreateLag",
                                                    "PublicData"}) =>
         df_public # <<>>

\* Both cached files were asked for and could not be read, and the run
\* ended with both tables recomputed.
C4_Witness ==
    /\ main_pc = "done"
    /\ Occurs("read_pickle cust_table_out failed")
    /\ Occurs("read_pickle forc_data failed")

\* C5: in run_pred_model and run_forc_model the test table is transformed
\* with the parameters fitted on the training table, which are not refitted.
C5_TestScaledWithTrainParams ==
    (main_pc \in {"run_pred_model", "run_forc_model"}
        /\ fn_pc \in {"PredModel", "Forecast"}) =>
        /\ ss = <<StdScale_fit(X_train, TRUE)>>
        /\ X_test_ss =
             StdScale_transform(StdScale_fit(X_train, TRUE), X_test, TRUE)

\* The place of a stage in the order DataClean, (PublicData, CreateLag),
\* CustSeg, Split, StdScale, PredModel/Forecast; 0 for a file read.  The
\* cluster table exists before entry j once CustSeg ran or the file was read.
Rank(stage) ==
    CASE stage = "DataClean" -> 1
      [] stage \in {"PublicData", "CreateLag"} -> 2
      [] stage = "CustSeg" -> 3
      [] stage = "Split" -> 4
      [] stage = "StdScale" -> 5
      [] stage \in {"PredModel", "Forecast"} -> 6
      [] OTHER -> 0

HasClusterTable(j) ==
    \E i \in 1..(j - 1) : log[i] \in {"CustSeg", "read_pickle cust_table_out"}

=============================================================================
